---- MODULE Spec2Model ----
(***************************************************************************)
(* Dwell and On Time Compliance Reporting (src/main.py): the upload tab's  *)
(* pipeline from the three uploaded CSV files to the merged compliance     *)
(* table, and the compliance and dwell time pivots of the Daily, Weekly,   *)
(* Monthly and Year-to-Date dashboards.                                    *)
(*                                                                         *)
(* Representation of values                                                *)
(*   - a pandas Timestamp is a number of seconds since 2020-01-01 00:00:00 *)
(*     (a Wednesday); NaT is the number NaT;                               *)
(*   - the text strftime('%m-%d-%Y %H:%M') produces is the tuple           *)
(*     <<mm, dd, yyyy, HH, MM>>: every field of the text has a fixed width *)
(*     and is zero padded, so comparing two texts byte by byte is          *)
(*     comparing these tuples lexicographically; a missing text (NaN in    *)
(*     pandas, NULL in DuckDB) is the empty tuple NullStr;                 *)
(*   - a shipment number is a float64 held in tenths (120 is 12.0); a      *)
(*     blank one (NaN in pandas, NULL in DuckDB) is NullId;                *)
(*     when read_csv leaves the shipment number column of a feed as text   *)
(*     (dtype object) its cells are sequences of one-character strings and *)
(*     the feed is in text_ids;                                            *)
(*   - a column the file does not have is a field the rows do not have;    *)
(*   - other text cells are strings, a blank one is NULL;                  *)
(*   - VARCHAR results of the query are sequences of one-character strings.*)
(***************************************************************************)
EXTENDS Integers, Sequences, FiniteSets, TLC

NaT == -1
NullId == -1
NullStr == <<>>
NULL == "NULL"
\* the '' default of req_time and wk in a column of numbers
Blank == -2

----------------------------------------------------------------------------
(* The calendar behind pandas Timestamp, strftime and isocalendar.         *)

EpochYear == 2020

IsLeap(y) == (y % 4 = 0 /\ y % 100 # 0) \/ y % 400 = 0

DaysInYear(y) == IF IsLeap(y) THEN 366 ELSE 365

DaysInMonth(y, m) ==
    IF m = 2 THEN (IF IsLeap(y) THEN 29 ELSE 28)
    ELSE IF m \in {4, 6, 9, 11} THEN 30 ELSE 31

RECURSIVE DaysBeforeYear(_)
DaysBeforeYear(y) ==
    IF y = EpochYear THEN 0
    ELSE IF y > EpochYear THEN DaysBeforeYear(y - 1) + DaysInYear(y - 1)
    ELSE DaysBeforeYear(y + 1) - DaysInYear(y)

RECURSIVE DaysBeforeMonth(_, _)
DaysBeforeMonth(y, m) ==
    IF m = 1 THEN 0 ELSE DaysBeforeMonth(y, m - 1) + DaysInMonth(y, m - 1)

\* the Timestamp of a civil date and time
Instant(y, mo, d, h, mi, s) ==
    (DaysBeforeYear(y) + DaysBeforeMonth(y, mo) + (d - 1)) * 86400
        + h * 3600 + mi * 60 + s

RECURSIVE YearFrom(_, _)
YearFrom(y, days) ==
    IF days < DaysInYear(y) THEN <<y, days>>
    ELSE YearFrom(y + 1, days - DaysInYear(y))

RECURSIVE MonthFrom(_, _, _)
MonthFrom(y, m, days) ==
    IF days < DaysInMonth(y, m) THEN <<m, days + 1>>
    ELSE MonthFrom(y, m + 1, days - DaysInMonth(y, m))

\* the civil fields of a Timestamp t # NaT
Civil(t) ==
    LET yd == YearFrom(EpochYear, t \div 86400)
        md == MonthFrom(yd[1], 1, yd[2])
        sod == t % 86400
    IN  [year |-> yd[1], month |-> md[1], day |-> md[2], yday |-> yd[2] + 1,
         hour |-> sod \div 3600, minute |-> (sod % 3600) \div 60,
         second |-> sod % 60]

\* Monday is 1 ... Sunday is 7; 2020-01-01 was a Wednesday
IsoWeekday(days) == ((days + 2) % 7) + 1

WeeksInYear(y) ==
    LET jan1 == IsoWeekday(DaysBeforeYear(y))
    IN  IF jan1 = 4 \/ (IsLeap(y) /\ jan1 = 3) THEN 53 ELSE 52

\* appt_datetime.isocalendar()[1]
IsoWeek(t) ==
    LET c == Civil(t)
        w == (c.yday - IsoWeekday(t \div 86400) + 10) \div 7
    IN  IF w < 1 THEN WeeksInYear(c.year - 1)
        ELSE IF w > WeeksInYear(c.year) THEN 1
        ELSE w

MonthAbbr ==
    <<"Jan", "Feb", "Mar", "Apr", "May", "Jun",
      "Jul", "Aug", "Sep", "Oct", "Nov", "Dec">>

\* Series.dt.strftime('%m-%d-%Y %H:%M'): the seconds are dropped, NaT gives NaN
Strftime(t) ==
    IF t = NaT THEN NullStr
    ELSE LET c == Civil(t) IN <<c.month, c.day, c.year, c.hour, c.minute>>

\* pd.to_datetime(text, errors='coerce') if text else None, of a text Strftime made
ToDatetime(s) ==
    IF s = NullStr THEN NaT
    ELSE Instant(s[3], s[1], s[2], s[4], s[5], 0)

\* byte-wise VARCHAR comparison a < b of two texts of the same layout
RECURSIVE StrLess(_, _)
StrLess(a, b) ==
    IF a = <<>> \/ b = <<>> THEN a = <<>> /\ b # <<>>
    ELSE IF Head(a) # Head(b) THEN Head(a) < Head(b)
    ELSE StrLess(Tail(a), Tail(b))

----------------------------------------------------------------------------
(* Text functions of the query's "Shipment ID" column.                     *)

RECURSIVE Digits(_)
Digits(n) ==
    IF n < 10 THEN <<ToString(n)>> ELSE Append(Digits(n \div 10), ToString(n % 10))

\* ROUND(x) of a non-negative DOUBLE held in tenths: the nearest whole number
Round(x) == (x + 5) \div 10

\* CAST(whole DOUBLE AS VARCHAR): '12.0'
CastVarchar(n) == Digits(n) \o <<".", "0">>

\* TRIM(TRAILING chars FROM s): strips every trailing character that is in chars
RECURSIVE TrimTrailing(_, _)
TrimTrailing(s, chars) ==
    IF s # <<>> /\ s[Len(s)] \in chars
    THEN TrimTrailing(SubSeq(s, 1, Len(s) - 1), chars)
    ELSE s

\* REGEXP_REPLACE(s, ch, ''): without the 'g' option, the first match only
RECURSIVE RegexpReplace(_, _)
RegexpReplace(s, ch) ==
    IF s = <<>> THEN <<>>
    ELSE IF Head(s) = ch THEN Tail(s)
    ELSE <<Head(s)>> \o RegexpReplace(Tail(s), ch)

ShipmentIdText(x) ==
    RegexpReplace(TrimTrailing(CastVarchar(Round(x)), {".", "0"}), ",")

----------------------------------------------------------------------------
(* The implicit cast of a VARCHAR join key to DOUBLE.                      *)

DigitValue ==
    ("0" :> 0) @@ ("1" :> 1) @@ ("2" :> 2) @@ ("3" :> 3) @@ ("4" :> 4) @@
    ("5" :> 5) @@ ("6" :> 6) @@ ("7" :> 7) @@ ("8" :> 8) @@ ("9" :> 9)

IsDigits(s) == s # <<>> /\ \A k \in 1..Len(s) : s[k] \in DOMAIN DigitValue

RECURSIVE WholeValue(_)
WholeValue(s) ==
    IF s = <<>> THEN 0
    ELSE WholeValue(SubSeq(s, 1, Len(s) - 1)) * 10 + DigitValue[s[Len(s)]]

\* the cast accepts digits with an optional fraction; a grouping separator makes
\* it raise a Conversion Error
Castable(s) ==
    \/ IsDigits(s)
    \/ \E k \in 2..(Len(s) - 1) :
          /\ s[k] = "."
          /\ IsDigits(SubSeq(s, 1, k - 1))
          /\ IsDigits(SubSeq(s, k + 1, Len(s)))

\* CAST(s AS DOUBLE) of a castable text, in tenths (the texts of the batches
\* have at most one fractional digit)
CastDouble(s) ==
    IF IsDigits(s) THEN WholeValue(s) * 10
    ELSE LET k == CHOOSE k \in 2..(Len(s) - 1) : s[k] = "."
         IN  WholeValue(SubSeq(s, 1, k - 1)) * 10 + DigitValue[s[k + 1]]

\* every cell of the key column can be cast
AllCastable(df, key) == \A k \in 1..Len(df) : Castable(df[k][key])

\* the frame with its key column as the join compares it: a text column is cast
\* to DOUBLE, a column of numbers is taken as it is
JoinKeys(df, key, is_text) ==
    IF is_text
    THEN [k \in 1..Len(df) |->
            [f \in DOMAIN df[k] |->
                IF f = key THEN CastDouble(df[k][f]) ELSE df[k][f]]]
    ELSE df

----------------------------------------------------------------------------
(* merge_query: filtered_ta, ranked_ta and the two LEFT JOINs.             *)

\* the columns of the three files
TaHeader == {"SHIPMENT_ID", "VISIT_TYPE", "ACTIVITY_TYPE", "DateTime", "CHECKOUT"}
AvHeader ==
    {"ShipmentNbr", "AppointmentType", "OrderStatus", "Carrier", "AppointmentDate",
     "CheckInDateTime"}
OvHeader == {"ShipmentNo", "AppointmentDate", "CheckInDateTime"}

\* df.columns (every row of a frame has the frame's columns; the files that
\* lack a column have a row)
Columns(df, header) == IF df = <<>> THEN header ELSE DOMAIN df[1]

\* the columns filtered_query and merge_query name
TaQueryColumns == {"SHIPMENT_ID", "VISIT_TYPE", "ACTIVITY_TYPE", "DateTime", "CHECKOUT"}
AvQueryColumns == {"ShipmentNbr", "AppointmentType", "OrderStatus", "Carrier"}
OvQueryColumns == {"ShipmentNo", "AppointmentDate", "CheckInDateTime"}

\* the binder finds every column the two queries name
Binds(ta, av, ov) ==
    /\ TaQueryColumns \subseteq Columns(ta, TaHeader)
    /\ AvQueryColumns \subseteq Columns(av, AvHeader)
    /\ OvQueryColumns \subseteq Columns(ov, OvHeader)

\* if col in df.columns: df[col] = pd.to_datetime(...).dt.strftime(...)
ConvertColumns(df, cols) ==
    [k \in 1..Len(df) |->
        [f \in DOMAIN df[k] |-> IF f \in cols THEN Strftime(df[k][f]) ELSE df[k][f]]]

\* OnQueryError with the exception caught: the script goes on with no rows
OnQueryError_Swallowed == "dropna"

\* what con.execute does when the query fails: the exception ends the script
\* run, merged_df is never assigned
OnQueryError == "error"

VisitTypes == {"Live Load", "Pickup Load", "Pickup Empty"}

\* Eligible without the test of the activity status
Eligible_AnyStatus(e) ==
    /\ e.VISIT_TYPE \in VisitTypes
    /\ e.SHIPMENT_ID # NullId

\* Eligible without the test of the visit type
Eligible_AnyVisit(e) ==
    /\ e.SHIPMENT_ID # NullId
    /\ e.ACTIVITY_TYPE = "CLOSED"

\* WHERE of filtered_ta
Eligible(e) ==
    /\ e.VISIT_TYPE \in VisitTypes
    /\ e.SHIPMENT_ID # NullId
    /\ e.ACTIVITY_TYPE = "CLOSED"

FilteredTa(ta) == SelectSeq(ta, Eligible)

\* OrderBefore with NULLS FIRST
OrderBefore_NullsFirst(a, b) ==
    /\ b.DateTime # NullStr
    /\ (a.DateTime = NullStr \/ StrLess(b.DateTime, a.DateTime))

\* ORDER BY "Date/Time" DESC, on the VARCHAR column, DuckDB's default NULLS LAST:
\* a is placed strictly before b
OrderBefore(a, b) ==
    /\ a.DateTime # NullStr
    /\ (b.DateTime = NullStr \/ StrLess(b.DateTime, a.DateTime))

\* PARTITION BY "SHIPMENT_ID"
SamePartition(a, b) == a.SHIPMENT_ID = b.SHIPMENT_ID

\* The numberings ROW_NUMBER() may give the rows of f: within each partition a
\* bijection onto 1..size that respects the ORDER BY; rows the ORDER BY does not
\* separate are numbered in an order the engine chooses.
RowNumbers(f) ==
    LET n == Len(f)
        size(i) == Cardinality({j \in 1..n : SamePartition(f[i], f[j])})
    IN  {r \in [1..n -> 1..n] :
            \A i \in 1..n :
                /\ r[i] <= size(i)
                /\ \A j \in 1..n :
                     (i # j /\ SamePartition(f[i], f[j])) =>
                        /\ r[i] # r[j]
                        /\ (OrderBefore(f[i], f[j]) => r[i] < r[j])}

Ranked(f, r) == [k \in 1..Len(f) |-> [ev |-> f[k], rn |-> r[k]]]

\* WHERE ta.rn = 1
RnFilter(x) == x.rn = 1

NullAv ==
    [ShipmentNbr |-> NullId, AppointmentType |-> NULL, OrderStatus |-> NULL,
     Carrier |-> NULL, AppointmentDate |-> NullStr, CheckInDateTime |-> NullStr]

NullOv ==
    [ShipmentNo |-> NullId, AppointmentDate |-> NullStr, CheckInDateTime |-> NullStr]

\* ON ta."SHIPMENT_ID" = av."Shipment Nbr" (a NULL never equals anything)
AvOn(e, a) == a.ShipmentNbr # NullId /\ e.SHIPMENT_ID = a.ShipmentNbr

\* ON ta."SHIPMENT_ID" = ov."Shipment #"
OvOn(e, o) == o.ShipmentNo # NullId /\ e.SHIPMENT_ID = o.ShipmentNo

\* LEFT JOIN: the matching rows, or one all-NULL row when there is none
LeftJoin(matches, nullrow) == IF matches = <<>> THEN <<nullrow>> ELSE matches

\* SelectRow with the activity row's visit type as "Appointment Type"
SelectRow_VisitType(e, a, o) ==
    [SHIPMENT_ID |-> e.SHIPMENT_ID,
     ShipmentID |-> ShipmentIdText(e.SHIPMENT_ID),
     AppointmentType |-> e.VISIT_TYPE,
     OrderStatus |-> a.OrderStatus,
     Carrier |-> a.Carrier,
     AppointmentDate |-> o.AppointmentDate,
     CheckInDateTime |-> o.CheckInDateTime,
     CheckOutDateTime |-> e.CHECKOUT,
     LoadedDateTime |-> e.DateTime,
     VisitType |-> e.VISIT_TYPE,
     ActivityType |-> e.ACTIVITY_TYPE]

\* The SELECT list. SHIPMENT_ID is not a column of the result: it records which
\* activity rows (which partition) the result row comes from.
SelectRow(e, a, o) ==
    [SHIPMENT_ID |-> e.SHIPMENT_ID,
     ShipmentID |-> ShipmentIdText(e.SHIPMENT_ID),
     AppointmentType |-> a.AppointmentType,
     OrderStatus |-> a.OrderStatus,
     Carrier |-> a.Carrier,
     AppointmentDate |-> o.AppointmentDate,
     CheckInDateTime |-> o.CheckInDateTime,
     CheckOutDateTime |-> e.CHECKOUT,
     LoadedDateTime |-> e.DateTime,
     VisitType |-> e.VISIT_TYPE,
     ActivityType |-> e.ACTIVITY_TYPE]

\* the result rows of one ranked activity row
JoinRows(e, av, ov) ==
    LET A == LeftJoin(SelectSeq(av, LAMBDA a : AvOn(e, a)), NullAv)
        O == LeftJoin(SelectSeq(ov, LAMBDA o : OvOn(e, o)), NullOv)
    IN  [k \in 1..(Len(A) * Len(O)) |->
            SelectRow(e, A[((k - 1) \div Len(O)) + 1], O[((k - 1) % Len(O)) + 1])]

RECURSIVE Flatten(_)
Flatten(ss) == IF ss = <<>> THEN <<>> ELSE Head(ss) \o Flatten(Tail(ss))

\* the result of merge_query for a ranked_ta
MergeRows(ranked, av, ov) ==
    LET sel == SelectSeq(ranked, RnFilter)
    IN  Flatten([k \in 1..Len(sel) |-> JoinRows(sel[k].ev, av, ov)])

\* DropnaKeeps with subset=['Carrier']
DropnaKeeps_CarrierOnly(row) == row.Carrier # NULL

\* DropnaKeeps with how='all'
DropnaKeeps_HowAll(row) == row.Carrier # NULL \/ row.AppointmentDate # NullStr

\* merged_df.dropna(subset=['Carrier', 'Appointment Date']) keeps the row
DropnaKeeps(row) == row.Carrier # NULL /\ row.AppointmentDate # NullStr

----------------------------------------------------------------------------
(* The calculated fields of one row (the body of the iterrows loop).       *)

\* req_time
ReqTime(appointment_type, appt_datetime) ==
    IF appointment_type = "Live Load"
    THEN appt_datetime + 15 * 60
    ELSE appt_datetime + 1440 * 60

\* Comp with a missing check-in always Late
Comp_MissingIsLate(check_in_datetime, req_time, now) ==
    IF check_in_datetime # NaT
    THEN (IF check_in_datetime > req_time THEN "Late" ELSE "On Time")
    ELSE "Late"

\* Comp with >= for the check-in
Comp_NotStrict(check_in_datetime, req_time, now) ==
    IF check_in_datetime # NaT
    THEN (IF check_in_datetime >= req_time THEN "Late" ELSE "On Time")
    ELSE (IF now > req_time THEN "Late" ELSE "On Time")

\* comp
Comp(check_in_datetime, req_time, now) ==
    IF check_in_datetime # NaT
    THEN (IF check_in_datetime > req_time THEN "Late" ELSE "On Time")
    ELSE (IF now > req_time THEN "Late" ELSE "On Time")

\* RawDwell measured from the appointment in every case
RawDwell_FromAppointment(comp, loaded_datetime, check_in_datetime, appt_datetime) ==
    IF loaded_datetime # NaT THEN loaded_datetime - appt_datetime ELSE 0

\* dwell before max and round, in seconds (total_seconds())
RawDwell(comp, loaded_datetime, check_in_datetime, appt_datetime) ==
    IF loaded_datetime # NaT
    THEN IF comp = "Late" /\ check_in_datetime # NaT
         THEN loaded_datetime - check_in_datetime
         ELSE IF comp = "On Time"
              THEN loaded_datetime - appt_datetime
              ELSE 0
    ELSE 0

\* Clamp without the max
Clamp_None(secs) == secs

\* max(dwell, 0) of a number of seconds
Clamp(secs) == IF secs > 0 THEN secs ELSE 0

\* round(max(dwell, 0), 2) of secs / 3600 hours, in hundredths of an hour. The
\* texts keep whole minutes, so secs is a multiple of 60 and secs / 36 is never
\* halfway between two integers: rounding to nearest is all round() does here.
DwellHundredths(secs) == (Clamp(secs) + 18) \div 36

\* the six values one iteration appends
Calculated(row, now) ==
    LET appt_datetime == ToDatetime(row.AppointmentDate)
        check_in_datetime == ToDatetime(row.CheckInDateTime)
        loaded_datetime == ToDatetime(row.LoadedDateTime)
    IN  IF appt_datetime # NaT
        THEN LET req_time == ReqTime(row.AppointmentType, appt_datetime)
                 comp == Comp(check_in_datetime, req_time, now)
                 c == Civil(appt_datetime)
             IN  [req_time |-> req_time,
                  comp |-> comp,
                  dwell |-> DwellHundredths(
                      RawDwell(comp, loaded_datetime, check_in_datetime, appt_datetime)),
                  sched_date |-> <<c.month, c.day, c.year>>,
                  mon |-> MonthAbbr[c.month],
                  wk |-> IsoWeek(appt_datetime)]
        ELSE [req_time |-> Blank, comp |-> "", dwell |-> 0,
              sched_date |-> <<>>, mon |-> "", wk |-> Blank]

----------------------------------------------------------------------------
(* The dwell time pivot of the dashboards.                                 *)

\* labels=[...] of pd.cut
DwellLabels ==
    <<"less than 2 hours", "2 to 3 hours", "3 to 4 hours", "4 to 5 hours",
      "5 or more hours">>

\* bins=[0, 2, 3, 4, 5, np.inf], in hundredths of an hour; the last edge is
\* np.inf
DwellBins == <<0, 200, 300, 400, 500>>

\* pd.cut(x, bins, labels) with its defaults right=True, include_lowest=False:
\* the label of the interval (bins[i], bins[i+1]] that holds x, NaN when x is in
\* none
Cut(x) ==
    LET I == {i \in 1..Len(DwellBins) :
                /\ DwellBins[i] < x
                /\ (i = Len(DwellBins) \/ x <= DwellBins[i + 1])}
    IN  IF I = {} THEN NULL ELSE DwellLabels[CHOOSE i \in I : TRUE]

\* df['Dwell Time Category'] = pd.cut(df['Dwell Time'], ...)
WithCategory(df) ==
    [k \in 1..Len(df) |->
        [f \in DOMAIN df[k] \cup {"DwellTimeCategory"} |->
            IF f = "DwellTimeCategory" THEN Cut(df[k].DwellTime) ELSE df[k][f]]]

\* df.pivot_table(values='Shipment ID', index='Dwell Time Category',
\* columns='Compliance', aggfunc='count', fill_value=0) and its 'Grand Total':
\* the rows whose category is NaN are in no group; a category with no row counts 0
DwellCountPivot(df) ==
    LET n(l, c) == Cardinality({k \in 1..Len(df) :
                        df[k].DwellTimeCategory = l /\ df[k].Compliance = c})
    IN  [l \in {DwellLabels[i] : i \in 1..Len(DwellLabels)} |->
            [Late |-> n(l, "Late"), OnTime |-> n(l, "On Time"),
             GrandTotal |-> n(l, "Late") + n(l, "On Time")]]

\* select_dtypes(include=[np.number]): the columns of a compliance pivot that
\* hold numbers. The counts 'Late' and 'On Time' do, and so does 'Week', whose
\* cells are the integers isocalendar()[1]; 'Scheduled Date' and 'Month' hold
\* text
NumberColumns == {"Week", "Late", "OnTime"}

\* .sum(axis=1) of the number columns of a row
RECURSIVE SumAxis1(_, _)
SumAxis1(row, cols) ==
    IF cols = {} THEN 0
    ELSE LET c == CHOOSE x \in cols : TRUE
         IN  row[c] + SumAxis1(row, cols \ {c})

\* round(on_time / grand_total * 100, 2), in hundredths of a percent; 0 / 0 is
\* NaN
OnTimePct(on_time, grand_total) ==
    IF grand_total = 0 THEN NULL
    ELSE (on_time * 20000 + grand_total) \div (2 * grand_total)

\* df.pivot_table(values='Shipment ID', index=index, columns='Compliance',
\* aggfunc='count', fill_value=0).reset_index() with its 'Grand Total' and
\* 'On Time %' columns: one row for each value of the index column, which
\* reset_index() makes a column of the pivot; 'Grand Total' is the sum of the
\* number columns the pivot has at that point. index = NULL is the pivot of the
\* whole frame, whose reset_index(drop=True) leaves no index column.
CompliancePivot(df, index) ==
    LET rows == {df[k] : k \in 1..Len(df)}
        keys == IF index = NULL THEN (IF df = <<>> THEN {} ELSE {NULL})
                ELSE {r[index] : r \in rows}
        n(v, c) == Cardinality({k \in 1..Len(df) :
                      /\ (index = NULL \/ df[k][index] = v)
                      /\ df[k].Compliance = c})
        counted(v) == IF index = NULL
                      THEN [Late |-> n(v, "Late"), OnTime |-> n(v, "On Time")]
                      ELSE (index :> v) @@
                           [Late |-> n(v, "Late"), OnTime |-> n(v, "On Time")]
        total(v) == SumAxis1(counted(v), DOMAIN counted(v) \cap NumberColumns)
    IN  {counted(v) @@ [GrandTotal |-> total(v),
                        OnTimePct |-> OnTimePct(n(v, "On Time"), total(v))] :
            v \in keys}

\* merged_df[merged_df['Scheduled Date'] == selected_date_str]
OnDate(df, selected_date_str) ==
    SelectSeq(df, LAMBDA row : row.ScheduledDate = selected_date_str)

\* st.date_input("Select Date for Daily Report:") left at its default, today,
\* as strftime('%m-%d-%Y') writes it
SelectedDateStr(now) == LET c == Civil(now) IN <<c.month, c.day, c.year>>

\* st.number_input("Select Week Number for Weekly Report:", min_value=1,
\* max_value=52, step=1)
min_value == 1
max_value == 52

\* merged_df[merged_df['Week'] == selected_week]
InWeek(df, selected_week) ==
    SelectSeq(df, LAMBDA row : row.Week = selected_week)

\* st.selectbox("Select Month for Monthly Report:", options=["Jan", ..., "Dec"])
MonthOptions == {MonthAbbr[m] : m \in 1..12}

\* merged_df[merged_df['Month'] == selected_month]
InMonth(df, selected_month) ==
    SelectSeq(df, LAMBDA row : row.Month = selected_month)

----------------------------------------------------------------------------
(* State.                                                                  *)

VARIABLES
    pc,                 \* the statement the script is at
    trailer_activity,   \* the uploaded files, as load_data reads them, with the
    appt_view,          \*   date cells already as pd.to_datetime(errors='coerce')
    order_view,         \*   reads them (a Timestamp with seconds, or NaT)
    text_ids,           \* the feeds ("av", "ov") whose shipment number column
                        \*   load_data leaves as text
    ta_df, av_df, ov_df,
    ranked_ta,          \* the rows of the ranked_ta CTE of the last query
    merged_df,
    current_time,
    required_time, compliance, dwell_time, scheduled_date, month, week,
    filtered_df,        \* the rows of the last Daily, Weekly or Monthly Dashboard
    compliance_pivot,   \* the last compliance pivot a dashboard has shown
    dwell_count_pivot,  \* the last dwell time pivot a dashboard has shown
    reran,              \* TRUE when the script has run before on these rows
    prev_selected,      \* the rows of ranked_ta with rn = 1 in the previous run
    prev_upload,        \* the table and the current_time of the run on the
                        \*   previous upload, and what the upload of this run
                        \*   differs from it in
    prev_run            \* the table and the current_time of the previous run,
                        \*   when it was on the same files

files == <<trailer_activity, appt_view, order_view, text_ids>>
frames == <<ta_df, av_df, ov_df>>
lists == <<required_time, compliance, dwell_time, scheduled_date, month, week>>
dashboards == <<filtered_df, compliance_pivot, dwell_count_pivot>>
history == <<reran, prev_selected, prev_upload, prev_run>>
vars == <<pc, files, frames, ranked_ta, merged_df, current_time, lists, dashboards,
          history>>

----------------------------------------------------------------------------
(* The input batches.                                                      *)

MaxEvents == 2
MaxAppts == 2
MaxOrders == 2

Minutes(n) == n * 60

\* 2024-03-01 08:00:00, the appointment of the batches
ApptA == Instant(2024, 3, 1, 8, 0, 0)

\* 08:10, 08:15, 08:15:30, 08:20, the next day 08:00 and 08:01, or none
CheckInTimes ==
    {NaT, ApptA + Minutes(10), ApptA + Minutes(15), ApptA + Minutes(15) + 30,
     ApptA + Minutes(20), ApptA + Minutes(1440), ApptA + Minutes(1441)}

\* 07:00, 09:30, 10:00, the next day 09:00, or none
LoadedTimes ==
    {NaT, ApptA - Minutes(60), ApptA + Minutes(90), ApptA + Minutes(120),
     ApptA + Minutes(1500)}

\* values of datetime.now(): 08:15:00, 08:15:30, the next day 08:00, 2024-03-03 08:00
NowTimes ==
    {ApptA + Minutes(15), ApptA + Minutes(15) + 30, ApptA + Minutes(1440),
     ApptA + Minutes(2880)}

\* loaded times of the events of one shipment: none, two years, two months, two
\* hours (the later one with seconds)
EventTimes ==
    {NaT, Instant(2023, 12, 31, 10, 0, 0), Instant(2024, 1, 1, 9, 0, 0),
     Instant(2024, 2, 29, 23, 0, 0), Instant(2024, 3, 1, 9, 0, 0),
     Instant(2024, 3, 1, 10, 0, 30)}

TaRow(id, visit, status, loaded, checkout) ==
    [SHIPMENT_ID |-> id, VISIT_TYPE |-> visit, ACTIVITY_TYPE |-> status,
     DateTime |-> loaded, CHECKOUT |-> checkout]

AvRow(id, type, carrier, checkin) ==
    [ShipmentNbr |-> id, AppointmentType |-> type, OrderStatus |-> "Shipped",
     Carrier |-> carrier, AppointmentDate |-> ApptA, CheckInDateTime |-> checkin]

OvRow(id, appt, checkin) ==
    [ShipmentNo |-> id, AppointmentDate |-> appt, CheckInDateTime |-> checkin]

SeqsUpTo(S, n) == UNION {[1..k -> S] : k \in 0..n}

\* One shipment in all three feeds: every case of the calculated fields.
EvaluationBatches ==
    {<<ta, av, ov>> :
        ta \in {<<TaRow(120, v, "CLOSED", l, ApptA + Minutes(120))>> :
                    v \in {"Live Load", "Pickup Load"}, l \in LoadedTimes},
        av \in {<<AvRow(120, ty, "NFI", c)>> :
                    ty \in {"Live Load", "Drop", NULL}, c \in {NaT, ApptA + Minutes(45)}},
        ov \in {<<OvRow(120, ApptA, c)>> : c \in CheckInTimes}}

\* the activity rows of the reducer's batches
ReducerEvents ==
    {TaRow(120, "Live Load", "CLOSED", l, c) :
        l \in EventTimes, c \in {NaT, ApptA + Minutes(120)}}
    \cup {TaRow(12000, "Pickup Load", "CLOSED", l, NaT) :
        l \in {NaT, Instant(2024, 3, 1, 9, 0, 0)}}
    \cup {TaRow(120, "Drop Empty", "CLOSED", Instant(2024, 3, 1, 11, 0, 0), NaT),
          TaRow(120, "Live Load", "OPEN", Instant(2024, 3, 1, 11, 0, 0), NaT),
          TaRow(NullId, "Live Load", "CLOSED", Instant(2024, 3, 1, 11, 0, 0), NaT)}

\* Several activity rows per shipment, one appointment and one order per shipment.
ReducerBatches ==
    {<<ta,
       <<AvRow(120, "Live Load", "NFI", NaT), AvRow(12000, "Drop", "XPO", NaT)>>,
       <<OvRow(120, ApptA, ApptA + Minutes(10)), OvRow(12000, ApptA, NaT)>> >> :
        ta \in SeqsUpTo(ReducerEvents, MaxEvents) \ {<<>>}}

LinkerAppts ==
    {AvRow(120, "Live Load", "NFI", NaT), AvRow(120, "Drop", NULL, NaT),
     AvRow(12000, "Drop", "XPO", NaT)}

LinkerOrders ==
    {OvRow(120, ApptA, ApptA + Minutes(10)), OvRow(120, NaT, ApptA + Minutes(20)),
     OvRow(12000, ApptA, NaT)}

\* Two shipments with one activity row each, any appointments and orders.
LinkerBatches ==
    {<<ta, av, ov>> :
        ta \in {<<TaRow(120, "Live Load", "CLOSED", ApptA + Minutes(90), NaT),
                  TaRow(12000, "Pickup Load", "CLOSED", NaT, NaT)>>},
        av \in SeqsUpTo(LinkerAppts, MaxAppts),
        ov \in SeqsUpTo(LinkerOrders, MaxOrders)}

\* appointments at the turn of a year: Thursday 2020-12-31 and Sunday
\* 2021-01-03, both in ISO week 53 of 2020, and Monday 2024-12-30, in ISO week 1
\* of 2025
TurnOfYear ==
    {Instant(2020, 12, 31, 8, 0, 0), Instant(2021, 1, 3, 8, 0, 0),
     Instant(2024, 12, 30, 8, 0, 0)}

\* One shipment in all three feeds, its appointment at the turn of a year.
CalendarBatches ==
    {<< <<TaRow(120, "Live Load", "CLOSED", t + Minutes(90), NaT)>>,
        <<AvRow(120, "Live Load", "NFI", NaT)>>,
        <<OvRow(120, t, t + Minutes(10))>> >> : t \in TurnOfYear}

Batches ==
    EvaluationBatches \cup ReducerBatches \cup LinkerBatches \cup CalendarBatches

\* the cells of a shipment number column that read_csv leaves as text because
\* of the grouping separator in one of them: "1,200" alone, or with "12"
TextCells ==
    {<< <<"1", ",", "2", "0", "0">> >>,
     << <<"1", "2">>, <<"1", ",", "2", "0", "0">> >>}

\* One shipment, 12 or 1200, and a feed of shipments 12 and 1200 whose number is
\* text in the appointment feed, in the order feed or in both.
TextBatches ==
    {<<ta, av, ov, t>> :
        ta \in {<<TaRow(id, "Live Load", "CLOSED", ApptA + Minutes(90), NaT)>> :
                    id \in {120, 12000}},
        av \in {[k \in 1..Len(c) |-> AvRow(c[k], "Live Load", "NFI", NaT)] :
                    c \in TextCells},
        ov \in {[k \in 1..Len(c) |-> OvRow(c[k], ApptA, ApptA + Minutes(10))] :
                    c \in TextCells},
        t \in {{"av"}, {"ov"}, {"av", "ov"}}}

\* the timestamp with its seconds cut off
Truncated(t) == IF t = NaT THEN NaT ELSE t - (t % 60)

\* the frame with the timestamps of the columns cols cut to whole minutes
TruncatedColumns(df, cols) ==
    [k \in 1..Len(df) |->
        [f \in DOMAIN df[k] |-> IF f \in cols THEN Truncated(df[k][f]) ELSE df[k][f]]]

\* the row without column c
Without(row, c) == [f \in DOMAIN row \ {c} |-> row[f]]

\* One shipment in all three feeds, one column missing from one of the files.
ColumnBatches ==
    LET ta == TaRow(120, "Live Load", "CLOSED", ApptA + Minutes(90), ApptA + Minutes(120))
        av == AvRow(120, "Live Load", "NFI", NaT)
        ov == OvRow(120, ApptA, ApptA + Minutes(10))
    IN  {<<(<<Without(ta, c)>>), <<av>>, <<ov>> >> : c \in TaHeader}
        \cup {<< <<ta>>, <<Without(av, c)>>, <<ov>> >> : c \in AvHeader}
        \cup {<< <<ta>>, <<av>>, <<Without(ov, c)>> >> : c \in OvHeader}

----------------------------------------------------------------------------
(* The script.                                                             *)

\* there was no other upload before this one
NoUpload == [merged_df |-> <<>>, current_time |-> NaT, differs |-> "nothing"]

Init ==
    /\ pc = "load"
    /\ \/ \E b \in Batches \cup ColumnBatches :
             /\ trailer_activity = b[1]
             /\ appt_view = b[2]
             /\ order_view = b[3]
             /\ text_ids = {}
       \/ \E b \in TextBatches :
             /\ trailer_activity = b[1]
             /\ appt_view = IF "av" \in b[4] THEN b[2]
                            ELSE <<AvRow(b[1][1].SHIPMENT_ID, "Live Load", "NFI", NaT)>>
             /\ order_view = IF "ov" \in b[4] THEN b[3]
                             ELSE <<OvRow(b[1][1].SHIPMENT_ID, ApptA, ApptA + Minutes(10))>>
             /\ text_ids = b[4]
    /\ ta_df = <<>> /\ av_df = <<>> /\ ov_df = <<>>
    /\ ranked_ta = <<>>
    /\ merged_df = <<>>
    /\ current_time = NaT
    /\ required_time = <<>> /\ compliance = <<>> /\ dwell_time = <<>>
    /\ scheduled_date = <<>> /\ month = <<>> /\ week = <<>>
    /\ filtered_df = <<>>
    /\ compliance_pivot = {}
    /\ dwell_count_pivot = DwellCountPivot(<<>>)
    /\ reran = FALSE
    /\ prev_selected = {}
    /\ prev_upload = NoUpload
    /\ prev_run = [merged_df |-> <<>>, current_time |-> NaT]

\* ta_df = load_data(trailer_activity), av_df, ov_df; the lists of an earlier run
\* are gone
Load ==
    /\ pc = "load"
    /\ ta_df' = trailer_activity
    /\ av_df' = appt_view
    /\ ov_df' = order_view
    /\ ranked_ta' = <<>>
    /\ merged_df' = <<>>
    /\ current_time' = NaT
    /\ required_time' = <<>> /\ compliance' = <<>> /\ dwell_time' = <<>>
    /\ scheduled_date' = <<>> /\ month' = <<>> /\ week' = <<>>
    /\ filtered_df' = <<>>
    /\ compliance_pivot' = {}
    /\ dwell_count_pivot' = DwellCountPivot(<<>>)
    /\ pc' = "convert"
    /\ UNCHANGED <<files, history>>

\* the three loops over datetime_columns_ta, _av, _ov
ConvertDatetime ==
    /\ pc = "convert"
    /\ ta_df' = ConvertColumns(ta_df, {"CHECKOUT", "DateTime"})
    /\ av_df' = ConvertColumns(av_df, {"AppointmentDate", "CheckInDateTime"})
    /\ ov_df' = ConvertColumns(ov_df, {"AppointmentDate", "CheckInDateTime"})
    /\ pc' = "query"
    /\ UNCHANGED <<files, ranked_ta, merged_df, current_time, lists, dashboards, history>>

\* merged_df = con.execute(merge_query).df(), when the query succeeds: every
\* column it names exists and, where a shipment number column is text, the
\* engine casts it to the DOUBLE of ta."SHIPMENT_ID" and every cell can be cast
MergeQuery ==
    /\ pc = "query"
    /\ Binds(ta_df, av_df, ov_df)
    /\ "av" \in text_ids => AllCastable(av_df, "ShipmentNbr")
    /\ "ov" \in text_ids => AllCastable(ov_df, "ShipmentNo")
    /\ \E r \in RowNumbers(FilteredTa(ta_df)) :
          /\ ranked_ta' = Ranked(FilteredTa(ta_df), r)
          /\ merged_df' = MergeRows(ranked_ta',
                                    JoinKeys(av_df, "ShipmentNbr", "av" \in text_ids),
                                    JoinKeys(ov_df, "ShipmentNo", "ov" \in text_ids))
    /\ pc' = "dropna"
    /\ UNCHANGED <<files, frames, current_time, lists, dashboards, history>>

\* con.execute raises: a Binder Error when the file lacks a column the queries
\* name; with a text shipment number column a Binder Error (DOUBLE and VARCHAR
\* are not compared without an explicit cast) or, in an engine that casts, a
\* Conversion Error on a cell that is no number
QueryError ==
    /\ pc = "query"
    /\ ~Binds(ta_df, av_df, ov_df) \/ text_ids # {}
    /\ pc' = OnQueryError
    /\ UNCHANGED <<files, frames, ranked_ta, merged_df, current_time, lists, dashboards, history>>

\* merged_df = merged_df.dropna(subset=['Carrier', 'Appointment Date'])
DropNa ==
    /\ pc = "dropna"
    /\ merged_df' = SelectSeq(merged_df, DropnaKeeps)
    /\ pc' = "now"
    /\ UNCHANGED <<files, frames, ranked_ta, current_time, lists, dashboards, history>>

\* current_time = datetime.now() and the six empty lists
LoopInit ==
    /\ pc = "now"
    /\ current_time' \in NowTimes
    /\ required_time' = <<>> /\ compliance' = <<>> /\ dwell_time' = <<>>
    /\ scheduled_date' = <<>> /\ month' = <<>> /\ week' = <<>>
    /\ pc' = "loop"
    /\ UNCHANGED <<files, frames, ranked_ta, merged_df, dashboards, history>>

\* LoopStep with dwell_time.append(dwell) inside if pd.notna(loaded_datetime)
LoopStep_DwellInsideIf ==
    /\ pc = "loop"
    /\ Len(compliance) < Len(merged_df)
    /\ LET row == merged_df[Len(compliance) + 1]
           c == Calculated(row, current_time)
       IN  /\ required_time' = Append(required_time, c.req_time)
           /\ compliance' = Append(compliance, c.comp)
           /\ dwell_time' = IF row.LoadedDateTime # NullStr
                            THEN Append(dwell_time, c.dwell)
                            ELSE dwell_time
           /\ scheduled_date' = Append(scheduled_date, c.sched_date)
           /\ month' = Append(month, c.mon)
           /\ week' = Append(week, c.wk)
    /\ UNCHANGED <<pc, files, frames, ranked_ta, merged_df, current_time, dashboards, history>>

\* one iteration of for index, row in merged_df.iterrows()
LoopStep ==
    /\ pc = "loop"
    /\ Len(compliance) < Len(merged_df)
    /\ LET c == Calculated(merged_df[Len(compliance) + 1], current_time)
       IN  /\ required_time' = Append(required_time, c.req_time)
           /\ compliance' = Append(compliance, c.comp)
           /\ dwell_time' = Append(dwell_time, c.dwell)
           /\ scheduled_date' = Append(scheduled_date, c.sched_date)
           /\ month' = Append(month, c.mon)
           /\ week' = Append(week, c.wk)
    /\ UNCHANGED <<pc, files, frames, ranked_ta, merged_df, current_time, dashboards, history>>

\* merged_df['Required Time'] = required_time ... merged_df['Week'] = week
AssignColumns ==
    /\ pc = "loop"
    /\ Len(compliance) = Len(merged_df)
    /\ merged_df' = [k \in 1..Len(merged_df) |->
            [SHIPMENT_ID |-> merged_df[k].SHIPMENT_ID,
             ShipmentID |-> merged_df[k].ShipmentID,
             AppointmentType |-> merged_df[k].AppointmentType,
             OrderStatus |-> merged_df[k].OrderStatus,
             Carrier |-> merged_df[k].Carrier,
             AppointmentDate |-> merged_df[k].AppointmentDate,
             CheckInDateTime |-> merged_df[k].CheckInDateTime,
             CheckOutDateTime |-> merged_df[k].CheckOutDateTime,
             LoadedDateTime |-> merged_df[k].LoadedDateTime,
             VisitType |-> merged_df[k].VisitType,
             ActivityType |-> merged_df[k].ActivityType,
             RequiredTime |-> required_time[k],
             Compliance |-> compliance[k],
             DwellTime |-> dwell_time[k],
             ScheduledDate |-> scheduled_date[k],
             Month |-> month[k],
             Week |-> week[k]]]
    /\ pc' = "done"
    /\ UNCHANGED <<files, frames, ranked_ta, current_time, lists, dashboards, history>>

\* The Daily Dashboard: the rows of the selected date, their compliance pivot
\* and their dwell time pivot
DailyDashboard ==
    /\ pc = "done"
    /\ LET selected == OnDate(merged_df, SelectedDateStr(current_time))
       IN  /\ compliance_pivot' = CompliancePivot(selected, "ScheduledDate")
           /\ filtered_df' = WithCategory(selected)
    /\ dwell_count_pivot' = DwellCountPivot(filtered_df')
    /\ pc' = "weekly"
    /\ UNCHANGED <<files, frames, ranked_ta, merged_df, current_time, lists, history>>

\* the week numbers the user selects: the default of the week selector, which
\* is its min_value, and the week of the appointments
WeekChoices == {min_value, IsoWeek(ApptA)}

\* The Weekly Dashboard: the rows of the selected week, their compliance pivot
\* and their dwell time pivot
WeeklyDashboard ==
    /\ pc = "weekly"
    /\ \E selected_week \in WeekChoices \cap (min_value..max_value) :
          LET selected == InWeek(merged_df, selected_week)
          IN  /\ compliance_pivot' = CompliancePivot(selected, "Week")
              /\ filtered_df' = WithCategory(selected)
    /\ dwell_count_pivot' = DwellCountPivot(filtered_df')
    /\ pc' = "monthly"
    /\ UNCHANGED <<files, frames, ranked_ta, merged_df, current_time, lists, history>>

\* the months the user selects: the default of the month selector, which is its
\* first option, and the month of the appointments
MonthChoices == {"Jan", MonthAbbr[Civil(ApptA).month]}

\* The Monthly Dashboard: the rows of the selected month, their compliance
\* pivot and their dwell time pivot
MonthlyDashboard ==
    /\ pc = "monthly"
    /\ \E selected_month \in MonthChoices \cap MonthOptions :
          LET selected == InMonth(merged_df, selected_month)
          IN  /\ compliance_pivot' = CompliancePivot(selected, "Month")
              /\ filtered_df' = WithCategory(selected)
    /\ dwell_count_pivot' = DwellCountPivot(filtered_df')
    /\ pc' = "ytd"
    /\ UNCHANGED <<files, frames, ranked_ta, merged_df, current_time, lists, history>>

\* The Year-to-Date Dashboard: ytd_df = merged_df is the table itself, which
\* gets the 'Dwell Time Category' column; its compliance pivot and its dwell
\* time pivot
YtdDashboard ==
    /\ pc = "ytd"
    /\ compliance_pivot' = CompliancePivot(merged_df, NULL)
    /\ merged_df' = WithCategory(merged_df)
    /\ dwell_count_pivot' = DwellCountPivot(merged_df')
    /\ pc' = "end"
    /\ UNCHANGED <<files, frames, ranked_ta, current_time, lists, filtered_df, history>>

\* A widget of a dashboard is used: Streamlit runs the script again from the top,
\* on the same uploaded files.
Rerun ==
    /\ pc = "end"
    /\ reran' = TRUE
    /\ prev_selected' = {x.ev : x \in {y \in {ranked_ta[k] : k \in 1..Len(ranked_ta)} : RnFilter(y)}}
    /\ prev_run' = [merged_df |-> merged_df, current_time |-> current_time]
    /\ prev_upload' = NoUpload
    /\ pc' = "load"
    /\ UNCHANGED <<files, frames, ranked_ta, merged_df, current_time, lists,
                   dashboards>>

\* The trailer activity file is uploaded again with its rows in another order.
Reupload ==
    /\ pc = "end"
    /\ \E p \in Permutations(1..Len(trailer_activity)) :
          trailer_activity' = [k \in 1..Len(trailer_activity) |-> trailer_activity[p[k]]]
    /\ trailer_activity' # trailer_activity
    /\ reran' = TRUE
    /\ prev_selected' = {x.ev : x \in {y \in {ranked_ta[k] : k \in 1..Len(ranked_ta)} : RnFilter(y)}}
    /\ prev_run' = [merged_df |-> <<>>, current_time |-> NaT]
    /\ prev_upload' = NoUpload
    /\ pc' = "load"
    /\ UNCHANGED <<appt_view, order_view, text_ids, frames, ranked_ta, merged_df,
                   current_time, lists, dashboards>>

\* After the first run the three files are uploaded again with the seconds of
\* every timestamp cut off: the same batch but for the seconds.
ReuploadSeconds ==
    /\ pc = "end"
    /\ ~reran /\ prev_upload = NoUpload
    /\ trailer_activity' = TruncatedColumns(trailer_activity, {"CHECKOUT", "DateTime"})
    /\ appt_view' = TruncatedColumns(appt_view, {"AppointmentDate", "CheckInDateTime"})
    /\ order_view' = TruncatedColumns(order_view, {"AppointmentDate", "CheckInDateTime"})
    /\ <<trailer_activity', appt_view', order_view'>>
          # <<trailer_activity, appt_view, order_view>>
    /\ reran' = FALSE
    /\ prev_selected' = {}
    /\ prev_run' = [merged_df |-> <<>>, current_time |-> NaT]
    /\ prev_upload' = [merged_df |-> merged_df, current_time |-> current_time,
                       differs |-> "seconds"]
    /\ pc' = "load"
    /\ UNCHANGED <<text_ids, frames, ranked_ta, merged_df, current_time, lists,
                   dashboards>>

\* the other check-in time of an appointment row
OtherCheckIn(t) == IF t = NaT THEN ApptA + Minutes(45) ELSE NaT

\* After the first run the appointment file is uploaded again with other
\* check-in times: the same batch but for the 'Check In DateTime' of the
\* appointment feed.
ReuploadCheckIn ==
    /\ pc = "end"
    /\ ~reran /\ prev_upload = NoUpload
    /\ appt_view # <<>>
    /\ \A k \in 1..Len(appt_view) : "CheckInDateTime" \in DOMAIN appt_view[k]
    /\ appt_view' = [k \in 1..Len(appt_view) |->
            [appt_view[k] EXCEPT !.CheckInDateTime = OtherCheckIn(@)]]
    /\ reran' = TRUE
    /\ prev_selected' = {x.ev : x \in {y \in {ranked_ta[k] : k \in 1..Len(ranked_ta)} : RnFilter(y)}}
    /\ prev_run' = [merged_df |-> <<>>, current_time |-> NaT]
    /\ prev_upload' = [merged_df |-> merged_df, current_time |-> current_time,
                       differs |-> "check-in"]
    /\ pc' = "load"
    /\ UNCHANGED <<trailer_activity, order_view, text_ids, frames, ranked_ta,
                   merged_df, current_time, lists, dashboards>>

\* the statements of one run of the script
ScriptRun ==
    \/ Load
    \/ ConvertDatetime
    \/ MergeQuery
    \/ QueryError
    \/ DropNa
    \/ LoopInit
    \/ LoopStep
    \/ AssignColumns
    \/ DailyDashboard
    \/ WeeklyDashboard
    \/ MonthlyDashboard
    \/ YtdDashboard

Next ==
    \/ ScriptRun
    \/ Rerun
    \/ Reupload
    \/ ReuploadSeconds
    \/ ReuploadCheckIn

\* the session: the script runs again and again
Spec == Init /\ [][Next]_vars

\* one run of the script on the uploaded files
OneRun == Init /\ [][ScriptRun]_vars

----------------------------------------------------------------------------
(* Properties.                                                             *)

\* the compliance table exists: the six columns are assigned
Done == pc \in {"done", "weekly", "monthly", "ytd", "end"}

\* ranked_ta holds the rows of this run's query
Queried ==
    pc \in {"dropna", "now", "loop", "done", "weekly", "monthly", "ytd", "end"}

Rows == {merged_df[k] : k \in 1..Len(merged_df)}

RangeOf(f) == {f[k] : k \in 1..Len(f)}

\* the uploaded appointment and order rows, their shipment numbers as numbers
ApptView == JoinKeys(appt_view, "ShipmentNbr", "av" \in text_ids)
OrderView == JoinKeys(order_view, "ShipmentNo", "ov" \in text_ids)

\* the rows ROW_NUMBER() numbered 1
Selected(ranked) == {x.ev : x \in {y \in RangeOf(ranked) : y.rn = 1}}

\* C1: in every record of the table, when the check-in is known the record is
\* Late exactly when the check-in is strictly after required_by (On Time at or
\* before it); when the check-in is unknown the record is Late exactly when now
\* is strictly after required_by.
C1_LateIffAfterRequiredBy ==
    Done =>
        \A row \in Rows :
            LET checked_in_at == ToDatetime(row.CheckInDateTime)
                instant == IF checked_in_at # NaT THEN checked_in_at ELSE current_time
            IN  /\ row.Compliance \in {"Late", "On Time"}
                /\ row.Compliance = "Late" <=> instant > row.RequiredTime

\* a record checked in exactly at required_by, On Time
C1_Witness ==
    /\ Done
    /\ \E row \in Rows :
          /\ row.CheckInDateTime # NullStr
          /\ ToDatetime(row.CheckInDateTime) = row.RequiredTime
          /\ row.Compliance = "On Time"

\* C2: in every record of the table required_by is the appointment time plus 15
\* minutes when the appointment type of its appointment record is Live Load, and
\* plus 1440 minutes for any other appointment type, a missing one included; the
\* visit type of the activity row plays no part.
C2_RequiredBy ==
    Done =>
        \A row \in Rows :
            \E a \in RangeOf(ApptView) :
                /\ a.ShipmentNbr = row.SHIPMENT_ID
                /\ a.Carrier = row.Carrier
                /\ row.AppointmentType = a.AppointmentType
                /\ row.RequiredTime =
                      ToDatetime(row.AppointmentDate)
                        + (IF a.AppointmentType = "Live Load" THEN 15 ELSE 1440) * 60

\* a Live Load visit whose appointment has no type: 1440 minutes
C2_Witness ==
    /\ Done
    /\ \E row \in Rows :
          /\ row.VisitType = "Live Load"
          /\ row.AppointmentType = NULL
          /\ row.RequiredTime = ToDatetime(row.AppointmentDate) + 1440 * 60

\* C3: in every record of the table the dwell is, before the floor at 0 and the
\* rounding: loaded - check-in when loaded is known, the record is Late and the
\* check-in is known; loaded - appointment when loaded is known and the record is
\* On Time; 0 otherwise. The reported value is that number floored at 0 and
\* rounded to the nearest hundredth of an hour.
C3_DwellHours ==
    Done =>
        \A row \in Rows :
            LET appt == ToDatetime(row.AppointmentDate)
                checkin == ToDatetime(row.CheckInDateTime)
                loaded == ToDatetime(row.LoadedDateTime)
                raw == CASE loaded # NaT /\ row.Compliance = "Late" /\ checkin # NaT
                              -> loaded - checkin
                         [] loaded # NaT /\ row.Compliance = "On Time"
                              -> loaded - appt
                         [] OTHER -> 0
                floored == IF raw < 0 THEN 0 ELSE raw
            IN  \* row.DwellTime / 100 hours is the hundredth nearest to floored seconds
                /\ 36 * row.DwellTime - 18 <= floored
                /\ floored <= 36 * row.DwellTime + 18

\* Live Load at 08:00, check-in 08:20, loaded 09:30: Late, 1.17 hours
C3_Witness ==
    /\ Done
    /\ \E row \in Rows :
          /\ row.AppointmentType = "Live Load"
          /\ row.AppointmentDate = <<3, 1, 2024, 8, 0>>
          /\ row.CheckInDateTime = <<3, 1, 2024, 8, 20>>
          /\ row.LoadedDateTime = <<3, 1, 2024, 9, 30>>
          /\ row.Compliance = "Late"
          /\ row.DwellTime = 117

\* C4: the dwell of every record of the table, and every value of the dwell list,
\* is at least 0, whatever the order of the loaded, check-in and appointment times.
C4_DwellNonNegative ==
    /\ \A k \in 1..Len(dwell_time) : dwell_time[k] >= 0
    /\ Done => \A row \in Rows : row.DwellTime >= 0

\* a record loaded before its appointment and one loaded before its late check-in
C4_Witness ==
    /\ Done
    /\ \E row \in Rows :
          /\ row.LoadedDateTime # NullStr
          /\ row.Compliance = "Late"
          /\ row.CheckInDateTime # NullStr
          /\ ToDatetime(row.LoadedDateTime) < ToDatetime(row.CheckInDateTime)
          /\ ToDatetime(row.LoadedDateTime) < ToDatetime(row.AppointmentDate)
          /\ row.DwellTime = 0

\* the shipments the reducer selected an activity row for
SelectedIds == {e.SHIPMENT_ID : e \in Selected(ranked_ta)}

\* the uploaded appointment rows of shipment id that name a carrier
CarrierRows(id) ==
    {a \in RangeOf(ApptView) : a.ShipmentNbr = id /\ a.Carrier # NULL}

\* the uploaded order rows of shipment id with a known appointment time
AppointmentRows(id) ==
    {o \in RangeOf(OrderView) : o.ShipmentNo = id /\ o.AppointmentDate # NaT}

\* C5: every record of the table has a carrier and a known appointment time, and
\* a selected shipment has a record exactly when the appointment feed has a row
\* for it with a carrier and the order feed has a row for it with a known
\* appointment time: with no such row, or with the carrier or the appointment
\* time removed from them, the shipment has no record.
C5_CarrierAndAppointment ==
    Done =>
        /\ \A row \in Rows :
              /\ row.Carrier \notin {NULL, ""}
              /\ ToDatetime(row.AppointmentDate) # NaT
        /\ \A id \in SelectedIds :
              (\E row \in Rows : row.SHIPMENT_ID = id)
                  <=> (CarrierRows(id) # {} /\ AppointmentRows(id) # {})

\* a shipment with a carrier whose only order row has no appointment time, and
\* one with an appointment time whose only appointment row has no carrier: no
\* record for either
C5_Witness ==
    /\ Done
    /\ \E id \in SelectedIds :
          /\ \E a \in RangeOf(ApptView) : a.ShipmentNbr = id
          /\ \E o \in RangeOf(OrderView) : o.ShipmentNo = id
          /\ CarrierRows(id) = {}
          /\ AppointmentRows(id) # {}
          /\ ~ \E row \in Rows : row.SHIPMENT_ID = id
    /\ \E id \in SelectedIds :
          /\ CarrierRows(id) # {}
          /\ AppointmentRows(id) # {}
          /\ \E row \in Rows : row.SHIPMENT_ID = id

\* C6: no two records of the table belong to the same shipment (the same
\* activity shipment number, hence the same "Shipment ID"), whatever the batch.
C6_OneRecordPerShipment ==
    Done =>
        \A i, j \in 1..Len(merged_df) :
            (/\ merged_df[i].SHIPMENT_ID = merged_df[j].SHIPMENT_ID
             /\ merged_df[i].ShipmentID = merged_df[j].ShipmentID) => i = j

\* the eligible rows of the uploaded activity file
EligibleUploaded ==
    {e \in RangeOf(trailer_activity) :
        /\ e.SHIPMENT_ID # NullId
        /\ e.ACTIVITY_TYPE = "CLOSED"
        /\ e.VISIT_TYPE \in {"Live Load", "Pickup Load", "Pickup Empty"}}

\* C7: the activity row selected for a shipment is loaded at or after every
\* other eligible row of the shipment whose loaded time is known (here: among
\* the rows with a known loaded time), also across months and years.
C7_SelectsLatestLoaded ==
    Queried =>
        \A x \in Selected(ranked_ta) :
            \A y \in RangeOf(ranked_ta) :
                (/\ y.ev.SHIPMENT_ID = x.SHIPMENT_ID
                 /\ x.DateTime # NullStr
                 /\ y.ev.DateTime # NullStr)
                    => ToDatetime(y.ev.DateTime) <= ToDatetime(x.DateTime)

\* C8: a row with an unknown loaded time is never selected for a shipment that
\* has an eligible row with a known loaded time, and a shipment whose eligible
\* rows all have an unknown loaded time still has exactly one selected row.
C8_UnknownLoadedLoses ==
    Queried =>
        /\ \A x \in Selected(ranked_ta) :
              x.DateTime = NullStr =>
                  \A e \in EligibleUploaded :
                      e.SHIPMENT_ID = x.SHIPMENT_ID => e.DateTime = NaT
        /\ \A e \in EligibleUploaded :
              (\A f \in EligibleUploaded :
                    f.SHIPMENT_ID = e.SHIPMENT_ID => f.DateTime = NaT)
                  => Cardinality({k \in 1..Len(ranked_ta) :
                        /\ ranked_ta[k].rn = 1
                        /\ ranked_ta[k].ev.SHIPMENT_ID = e.SHIPMENT_ID}) = 1

\* a shipment with a row of unknown and a row of known loaded time: the row of
\* known loaded time is selected
C8_Witness ==
    /\ Queried
    /\ \E e, f \in EligibleUploaded :
          /\ e.SHIPMENT_ID = f.SHIPMENT_ID
          /\ e.DateTime = NaT
          /\ f.DateTime # NaT
          /\ \E x \in Selected(ranked_ta) :
                x.SHIPMENT_ID = e.SHIPMENT_ID /\ x.DateTime = Strftime(f.DateTime)

\* C9: the rows selected are the same in every run on the same set of activity
\* rows, in whatever order the file holds them.
C9_SameSelectionEveryRun ==
    (Queried /\ reran) => Selected(ranked_ta) = prev_selected

\* C10: the reducer selects exactly one row for each shipment number that has an
\* eligible row, and none for any other; the query's result holds rows of these
\* shipments and no other.
C10_OneRowPerShipment ==
    Queried =>
        /\ \A id \in {e.SHIPMENT_ID : e \in RangeOf(trailer_activity)} :
              Cardinality({k \in 1..Len(ranked_ta) :
                    /\ ranked_ta[k].rn = 1
                    /\ ranked_ta[k].ev.SHIPMENT_ID = id})
                = (IF \E e \in EligibleUploaded : e.SHIPMENT_ID = id THEN 1 ELSE 0)
        /\ SelectedIds = {e.SHIPMENT_ID : e \in EligibleUploaded}
        /\ pc = "dropna" => {row.SHIPMENT_ID : row \in Rows} = SelectedIds

\* a file with two eligible rows of one shipment, one of them selected
C10_Witness ==
    /\ pc = "dropna"
    /\ Len(ranked_ta) = 2
    /\ ranked_ta[1].ev.SHIPMENT_ID = ranked_ta[2].ev.SHIPMENT_ID
    /\ Cardinality(Selected(ranked_ta)) = 1
    /\ Len(merged_df) = 1

\* C11: every row the query ranks, and every record of the result and of the
\* table, comes from an uploaded activity row that has a shipment number, the
\* status CLOSED and one of the three visit types: the record's shipment, loaded
\* time, check-out time and visit type are those of such a row. A shipment with
\* no such row has no record, whatever the appointment and order feeds hold.
C11_FromEligibleEvent ==
    Queried =>
        /\ \A x \in RangeOf(ranked_ta) :
              \E e \in EligibleUploaded :
                  /\ x.ev.SHIPMENT_ID = e.SHIPMENT_ID
                  /\ x.ev.VISIT_TYPE = e.VISIT_TYPE
                  /\ x.ev.DateTime = Strftime(e.DateTime)
                  /\ x.ev.CHECKOUT = Strftime(e.CHECKOUT)
        /\ \A row \in Rows :
              \E e \in EligibleUploaded :
                  /\ row.SHIPMENT_ID = e.SHIPMENT_ID
                  /\ row.VisitType = e.VISIT_TYPE
                  /\ row.LoadedDateTime = Strftime(e.DateTime)
                  /\ row.CheckOutDateTime = Strftime(e.CHECKOUT)
                  /\ row.ActivityType = "CLOSED"

\* a shipment with an eligible row and a later row that is not eligible: its
\* record has the loaded time of the eligible row
C11_Witness ==
    /\ Done
    /\ \E row \in Rows :
          \E f \in RangeOf(trailer_activity) \ EligibleUploaded :
              /\ f.SHIPMENT_ID = row.SHIPMENT_ID
              /\ row.LoadedDateTime # NullStr
              /\ f.DateTime > ToDatetime(row.LoadedDateTime)

\* the canonical form of a shipment number held as a number: its digits, a
\* fraction of zero dropped
CanonNumber(x) ==
    IF x % 10 = 0 THEN Digits(x \div 10)
    ELSE Digits(x \div 10) \o <<".", ToString(x % 10)>>

\* the canonical form of a shipment number held as text: the grouping
\* separators removed, then a trailing fraction of zero
CanonText(t) ==
    LET d == SelectSeq(t, LAMBDA c : c # ",")
    IN  IF Len(d) > 2 /\ SubSeq(d, Len(d) - 1, Len(d)) = <<".", "0">>
        THEN SubSeq(d, 1, Len(d) - 2)
        ELSE d

\* the uploaded appointment rows that denote the shipment of activity row e
SameShipmentAppts(e) ==
    {a \in RangeOf(appt_view) :
        IF "av" \in text_ids
        THEN CanonText(a.ShipmentNbr) = CanonNumber(e.SHIPMENT_ID)
        ELSE a.ShipmentNbr # NullId
                /\ CanonNumber(a.ShipmentNbr) = CanonNumber(e.SHIPMENT_ID)}

\* the uploaded order rows that denote the shipment of activity row e
SameShipmentOrders(e) ==
    {o \in RangeOf(order_view) :
        IF "ov" \in text_ids
        THEN CanonText(o.ShipmentNo) = CanonNumber(e.SHIPMENT_ID)
        ELSE o.ShipmentNo # NullId
                /\ CanonNumber(o.ShipmentNo) = CanonNumber(e.SHIPMENT_ID)}

\* C12: when the query has run on files that have every column, each appointment
\* row and each order row whose shipment number has the canonical form of an
\* eligible activity row's shipment number is linked to it: the query returns a
\* row of that shipment with the appointment row's type and carrier, and one
\* with the order row's appointment and check-in time, whether the feed holds
\* the number as a number or as text, with or without grouping separators.
C12_LinkedByCanonicalForm ==
    (pc \in {"dropna", "error"} /\ Binds(trailer_activity, appt_view, order_view)) =>
        \A e \in EligibleUploaded :
            /\ \A a \in SameShipmentAppts(e) :
                  /\ pc = "dropna"
                  /\ \E row \in Rows :
                        /\ row.SHIPMENT_ID = e.SHIPMENT_ID
                        /\ row.Carrier = a.Carrier
                        /\ row.AppointmentType = a.AppointmentType
            /\ \A o \in SameShipmentOrders(e) :
                  /\ pc = "dropna"
                  /\ \E row \in Rows :
                        /\ row.SHIPMENT_ID = e.SHIPMENT_ID
                        /\ row.AppointmentDate = Strftime(o.AppointmentDate)
                        /\ row.CheckInDateTime = Strftime(o.CheckInDateTime)

\* C13: the "Shipment ID" of every row the query returns is the canonical form
\* of the activity row's shipment number, every digit of it kept (1200 stays
\* 1200), so rows of different shipment numbers have different "Shipment ID"s.
C13_ShipmentIdKeepsDigits ==
    Queried =>
        /\ \A row \in Rows : row.ShipmentID = CanonNumber(row.SHIPMENT_ID)
        /\ \A r1, r2 \in Rows :
              r1.SHIPMENT_ID # r2.SHIPMENT_ID => r1.ShipmentID # r2.ShipmentID

\* C14: a shipment with an eligible activity row, an appointment row that names
\* a carrier and an order row with a known appointment time, all under the same
\* shipment number, has exactly one record in the table.
C14_ExactlyOneRecord ==
    Done =>
        \A id \in SelectedIds :
            (CarrierRows(id) # {} /\ AppointmentRows(id) # {}) =>
                Cardinality({k \in 1..Len(merged_df) : merged_df[k].SHIPMENT_ID = id}) = 1

\* the script has run to its end a second time on the same files
RanTwice == pc = "end" /\ prev_run.current_time # NaT

\* C15: when the script has run twice on the same files and current_time was
\* the same instant in both runs, the table of the second run is the table of
\* the first, row for row and field for field, also when activity rows of a
\* shipment have the same loaded time.
C15_SameTableEveryRun ==
    (RanTwice /\ prev_run.current_time = current_time) =>
        merged_df = prev_run.merged_df

\* the fields of a record that the two runs may give different values when the
\* check-in is unknown: the compliance, the dwell and the category cut from it
NowFields == {"Compliance", "DwellTime", "DwellTimeCategory"}

\* C16: when the script has run twice on the same files, at different instants,
\* every record with a known check-in is the same in both tables in every
\* field, and a record with an unknown check-in differs at most in its
\* compliance and its dwell.
C16_OnlyProvisionalDependsOnNow ==
    (RanTwice /\ prev_run.current_time # current_time) =>
        /\ Len(merged_df) = Len(prev_run.merged_df)
        /\ \A k \in 1..Len(merged_df) :
              LET row == merged_df[k]
                  old == prev_run.merged_df[k]
              IN  IF row.CheckInDateTime # NullStr
                  THEN row = old
                  ELSE \A f \in DOMAIN row \ NowFields : row[f] = old[f]

\* C17: a timestamp that is missing or cannot be parsed never ends the run in an
\* error (the run fails only on a missing column or a text shipment number). In
\* the table: a shipment whose order rows all have an unknown appointment time
\* has no record; a record with an unknown check-in is Late exactly when
\* current_time is after its required time; a record with an unknown loaded
\* time has the dwell 0; and every shipment that has a carrier and a known
\* appointment time has its record, computed from its own row and
\* current_time, whatever the timestamps of the other shipments are.
C17_UnknownTimestamps ==
    /\ pc = "error" => (~Binds(ta_df, av_df, ov_df) \/ text_ids # {})
    /\ Done =>
          /\ \A id \in SelectedIds :
                /\ AppointmentRows(id) = {} => ~ \E row \in Rows : row.SHIPMENT_ID = id
                /\ (CarrierRows(id) # {} /\ AppointmentRows(id) # {})
                      => \E row \in Rows : row.SHIPMENT_ID = id
          /\ \A row \in Rows :
                /\ row.CheckInDateTime = NullStr =>
                      (row.Compliance = "Late" <=> current_time > row.RequiredTime)
                /\ row.CheckInDateTime = NullStr => row.Compliance \in {"Late", "On Time"}
                /\ row.LoadedDateTime = NullStr => row.DwellTime = 0
                /\ LET c == Calculated(row, current_time)
                   IN  /\ row.RequiredTime = c.req_time
                       /\ row.Compliance = c.comp
                       /\ row.DwellTime = c.dwell

\* a shipment dropped for its unknown appointment time next to a shipment with
\* unknown check-in and loaded times, whose record is On Time against
\* current_time with the dwell 0
C17_Witness ==
    /\ Done
    /\ \E id \in SelectedIds :
          /\ CarrierRows(id) # {}
          /\ \E o \in RangeOf(OrderView) : o.ShipmentNo = id /\ o.AppointmentDate = NaT
          /\ AppointmentRows(id) = {}
          /\ ~ \E row \in Rows : row.SHIPMENT_ID = id
    /\ \E row \in Rows :
          /\ row.CheckInDateTime = NullStr
          /\ row.LoadedDateTime = NullStr
          /\ current_time <= row.RequiredTime
          /\ row.Compliance = "On Time"
          /\ row.DwellTime = 0

\* the columns the feeds must have: of the activity feed the shipment
\* identifier, visit type, activity status, loaded time and check-out time; of
\* the appointment feed the shipment number, appointment type, order status and
\* carrier; of the order feed the shipment number, appointment date and
\* check-in time
LacksRequiredColumn ==
    \/ ~ ({"SHIPMENT_ID", "VISIT_TYPE", "ACTIVITY_TYPE", "DateTime", "CHECKOUT"}
            \subseteq Columns(trailer_activity, TaHeader))
    \/ ~ ({"ShipmentNbr", "AppointmentType", "OrderStatus", "Carrier"}
            \subseteq Columns(appt_view, AvHeader))
    \/ ~ ({"ShipmentNo", "AppointmentDate", "CheckInDateTime"}
            \subseteq Columns(order_view, OvHeader))

\* C18: when an uploaded file lacks one of the required columns the run never
\* gets past the query: it ends in the error state and merged_df is never
\* assigned, so no table, and no table of unknown values, is produced.
C18_MissingColumnIsAnError ==
    LacksRequiredColumn =>
        /\ pc \in {"load", "convert", "query", "error"}
        /\ merged_df = <<>>
        /\ compliance = <<>>

\* the order file has no check-in column: the conversion loop skips it and the
\* query raises
C18_Witness ==
    /\ pc = "error"
    /\ order_view # <<>>
    /\ "CheckInDateTime" \notin DOMAIN order_view[1]
    /\ ov_df = ConvertColumns(order_view, {"AppointmentDate"})
    /\ merged_df = <<>>

\* the bucket [0,2), [2,3), [3,4), [4,5) or [5,oo) of a dwell in hundredths of
\* an hour, by the label the dashboards give it
HalfOpenBucket(d) ==
    IF d < 200 THEN "less than 2 hours"
    ELSE IF d < 300 THEN "2 to 3 hours"
    ELSE IF d < 400 THEN "3 to 4 hours"
    ELSE IF d < 500 THEN "4 to 5 hours"
    ELSE "5 or more hours"

\* the number of rows of df whose dwell is in the bucket labelled l
InBucket(df, l) ==
    Cardinality({k \in 1..Len(df) : HalfOpenBucket(df[k].DwellTime) = l})

\* C19: in the dwell time pivot of the Daily, Weekly and Monthly Dashboards and
\* of the Year-to-Date Dashboard the Grand Total of each bucket is the number of the dashboard's
\* records whose dwell is in [0,2), [2,3), [3,4), [4,5), [5,oo) respectively:
\* every record is counted once, a dwell of 0 in the first bucket and a dwell of
\* exactly 2, 3, 4 or 5 hours in the bucket that starts there.
C19_DwellBuckets ==
    /\ pc \in {"weekly", "monthly", "ytd"} =>
          \A l \in DOMAIN dwell_count_pivot :
              dwell_count_pivot[l].GrandTotal = InBucket(filtered_df, l)
    /\ pc = "end" =>
          \A l \in DOMAIN dwell_count_pivot :
              dwell_count_pivot[l].GrandTotal = InBucket(merged_df, l)

\* the six columns the loop computes
CalculatedColumns ==
    {"RequiredTime", "Compliance", "DwellTime", "ScheduledDate", "Month", "Week"}

\* C20: the six lists always have the same length; during the loop that length
\* is the number of rows processed, at most the number of rows of merged_df, and
\* the k-th value of each list is the one calculated from the k-th row; when the
\* table is complete the k-th value of each list is in the k-th row that dropna
\* retained; and at no time has a row some of the six columns without the others.
C20_ListsInStep ==
    /\ Len(required_time) = Len(compliance)
    /\ Len(dwell_time) = Len(compliance)
    /\ Len(scheduled_date) = Len(compliance)
    /\ Len(month) = Len(compliance)
    /\ Len(week) = Len(compliance)
    /\ pc = "loop" =>
          /\ Len(compliance) <= Len(merged_df)
          /\ \A k \in 1..Len(compliance) :
                LET c == Calculated(merged_df[k], current_time)
                IN  /\ required_time[k] = c.req_time
                    /\ compliance[k] = c.comp
                    /\ dwell_time[k] = c.dwell
                    /\ scheduled_date[k] = c.sched_date
                    /\ month[k] = c.mon
                    /\ week[k] = c.wk
    /\ Done =>
          /\ Len(compliance) = Len(merged_df)
          /\ \A k \in 1..Len(merged_df) :
                /\ merged_df[k].RequiredTime = required_time[k]
                /\ merged_df[k].Compliance = compliance[k]
                /\ merged_df[k].DwellTime = dwell_time[k]
                /\ merged_df[k].ScheduledDate = scheduled_date[k]
                /\ merged_df[k].Month = month[k]
                /\ merged_df[k].Week = week[k]
    /\ \A row \in Rows :
          \/ CalculatedColumns \cap DOMAIN row = {}
          \/ CalculatedColumns \subseteq DOMAIN row

\* the first row of the query's result was dropped and a later row retained:
\* the first value of each list is in the retained row
C20_Witness ==
    /\ Done
    /\ Len(merged_df) = 1
    /\ \E id \in SelectedIds :
          /\ id # merged_df[1].SHIPMENT_ID
          /\ trailer_activity[1].SHIPMENT_ID = id
    /\ merged_df[1].Compliance = compliance[1]
    /\ merged_df[1].DwellTime = dwell_time[1]
    /\ merged_df[1].Week = week[1]

\* the columns of the compliance table when the evaluation completes
TableColumns ==
    {"SHIPMENT_ID", "ShipmentID", "AppointmentType", "OrderStatus", "Carrier",
     "AppointmentDate", "CheckInDateTime", "CheckOutDateTime", "LoadedDateTime",
     "VisitType", "ActivityType"} \cup CalculatedColumns

\* C21: the dashboards leave the compliance table as the evaluation completed
\* it: while and after they are rendered the table has the rows the loop
\* processed, each with the columns it had when the six lists were assigned and
\* with the values of the lists.
C21_DashboardsLeaveTable ==
    Done =>
        /\ Len(merged_df) = Len(compliance)
        /\ \A k \in 1..Len(merged_df) :
              /\ DOMAIN merged_df[k] = TableColumns
              /\ merged_df[k].RequiredTime = required_time[k]
              /\ merged_df[k].Compliance = compliance[k]
              /\ merged_df[k].DwellTime = dwell_time[k]
              /\ merged_df[k].ScheduledDate = scheduled_date[k]
              /\ merged_df[k].Month = month[k]
              /\ merged_df[k].Week = week[k]

\* C22: every record of the compliance table has Compliance On Time or Late and
\* has Required Time, Scheduled Date, Month and Week set, the week in 1..53 and
\* the month an abbreviation: the defaults of the loop ('' and 0) are in no
\* record, because the Appointment Date of every row dropna retained is a text
\* that pd.to_datetime reads back as an instant.
C22_NoDefaultsInTable ==
    Done =>
        \A row \in Rows :
            /\ ToDatetime(row.AppointmentDate) # NaT
            /\ row.Compliance \in {"On Time", "Late"}
            /\ row.RequiredTime # Blank
            /\ row.RequiredTime # NaT
            /\ row.ScheduledDate # <<>>
            /\ row.Month \in MonthOptions
            /\ row.Week \in 1..53

\* a table of one record, On Time or Late with its four fields set, from a
\* batch of which another shipment was dropped for its missing appointment
C22_Witness ==
    /\ Done
    /\ Len(merged_df) = 1
    /\ \E o \in RangeOf(order_view) :
          /\ o.AppointmentDate = NaT
          /\ o.ShipmentNo \in SelectedIds
    /\ merged_df[1].Compliance \in {"On Time", "Late"}
    /\ merged_df[1].RequiredTime = ApptA + Minutes(15)
    /\ merged_df[1].ScheduledDate = <<3, 1, 2024>>
    /\ merged_df[1].Month = "Mar"
    /\ merged_df[1].Week = 9

\* in every row of the compliance pivot shown, Grand Total is the number of the
\* dashboard's records and On Time % is 100 times the On Time count over it
CountsRecords(pivot, df) ==
    /\ df # <<>> => pivot # {}
    /\ \A p \in pivot :
          /\ p.Late = Cardinality({k \in 1..Len(df) : df[k].Compliance = "Late"})
          /\ p.OnTime = Cardinality({k \in 1..Len(df) : df[k].Compliance = "On Time"})
          /\ p.GrandTotal = Len(df)
          /\ p.GrandTotal = p.OnTime + p.Late
          /\ p.OnTimePct = OnTimePct(p.OnTime, Len(df))

\* the daily and the monthly compliance pivots count the dashboard's records
DailyAndMonthlyCount ==
    pc \in {"weekly", "ytd"} => CountsRecords(compliance_pivot, filtered_df)

\* C23: in the 'On Time Compliance by Week' table of the Weekly Dashboard, Grand
\* Total is the number of records of the selected week, the On Time count plus
\* the Late count, and On Time % is 100 times the On Time count over that
\* number.
C23_WeeklyGrandTotal ==
    pc = "monthly" => CountsRecords(compliance_pivot, filtered_df)

\* C24: the week of every record of the compliance table, the ISO-8601 week of
\* its appointment, is a week number the selector of the Weekly Dashboard
\* accepts, so the dashboard can show every record.
C24_EveryWeekSelectable ==
    Done =>
        \A row \in Rows :
            /\ row.Week = IsoWeek(ToDatetime(row.AppointmentDate))
            /\ row.Week \in min_value..max_value

\* the three frames as the script would have them had the files held the
\* minute-truncated timestamps
TruncatedTa ==
    ConvertColumns(TruncatedColumns(trailer_activity, {"CHECKOUT", "DateTime"}),
                   {"CHECKOUT", "DateTime"})
TruncatedAv ==
    ConvertColumns(TruncatedColumns(appt_view, {"AppointmentDate", "CheckInDateTime"}),
                   {"AppointmentDate", "CheckInDateTime"})
TruncatedOv ==
    ConvertColumns(TruncatedColumns(order_view, {"AppointmentDate", "CheckInDateTime"}),
                   {"AppointmentDate", "CheckInDateTime"})

\* the columns of the table that the query selects
QueryColumns == TableColumns \ CalculatedColumns

\* The table depends on the feed timestamps only through their values
\* truncated to whole minutes: from the conversion on, the three frames are
\* those of the batch with every timestamp truncated; the ranking of the
\* reducer is a ranking of the truncated rows; and the table is the rows that
\* the join of the truncated frames yields and dropna retains, with the six
\* columns calculated from those rows and current_time. A batch that differs
\* only in seconds gives the same frames and the same rankings to choose from.
MinuteTruncated ==
    /\ pc \notin {"load", "convert"} =>
          /\ ta_df = TruncatedTa
          /\ av_df = TruncatedAv
          /\ ov_df = TruncatedOv
    /\ Queried =>
          \E r \in RowNumbers(FilteredTa(TruncatedTa)) :
              ranked_ta = Ranked(FilteredTa(TruncatedTa), r)
    /\ Done =>
          LET joined == SelectSeq(
                  MergeRows(ranked_ta,
                            JoinKeys(TruncatedAv, "ShipmentNbr", "av" \in text_ids),
                            JoinKeys(TruncatedOv, "ShipmentNo", "ov" \in text_ids)),
                  DropnaKeeps)
          IN  /\ Len(merged_df) = Len(joined)
              /\ \A k \in 1..Len(merged_df) :
                    LET c == Calculated(joined[k], current_time)
                    IN  /\ \A f \in QueryColumns : merged_df[k][f] = joined[k][f]
                        /\ merged_df[k].RequiredTime = c.req_time
                        /\ merged_df[k].Compliance = c.comp
                        /\ merged_df[k].DwellTime = c.dwell
                        /\ merged_df[k].ScheduledDate = c.sched_date
                        /\ merged_df[k].Month = c.mon
                        /\ merged_df[k].Week = c.wk

\* a check-in at 08:15:30, thirty seconds after the required time 08:15 of a
\* Live Load, is in the table as 08:15 and the record is On Time, with its
\* dwell counted from the appointment to the loading at 09:30
OnTimeWithinTheMinute ==
    /\ Done
    /\ \E o \in RangeOf(order_view) : o.CheckInDateTime = ApptA + Minutes(15) + 30
    /\ \E row \in Rows :
          /\ row.RequiredTime = ApptA + Minutes(15)
          /\ row.CheckInDateTime = <<3, 1, 2024, 8, 15>>
          /\ row.Compliance = "On Time"
          /\ row.DwellTime = 150

\* two rows of ranked_ta of one shipment that the ORDER BY of the window puts
\* in no order: the engine numbers them as it likes
Tied ==
    \E i, j \in 1..Len(ranked_ta) :
        /\ i # j
        /\ SamePartition(ranked_ta[i].ev, ranked_ta[j].ev)
        /\ ~OrderBefore(ranked_ta[i].ev, ranked_ta[j].ev)
        /\ ~OrderBefore(ranked_ta[j].ev, ranked_ta[i].ev)

\* this run is on the batch of the previous upload but for what, at the same
\* current_time
SecondUpload(what) ==
    /\ pc = "end"
    /\ prev_upload.differs = what
    /\ prev_upload.current_time = current_time

\* C25: two batches that differ only in the seconds of their timestamps yield
\* the same compliance table: when the files are uploaded again with the
\* seconds cut off and the script runs at the same current_time, its table is
\* the table of the run before, row for row and field for field.
C25_SameTableButForSeconds ==
    SecondUpload("seconds") => merged_df = prev_upload.merged_df

\* the tables of the two uploads differ only where the reducer had rows in no
\* order to choose from
SameTableButForSecondsUnlessTied ==
    (SecondUpload("seconds") /\ ~Tied) => merged_df = prev_upload.merged_df

\* C26: two batches that differ only in the check-in times of the appointment
\* feed yield the same compliance table: when the appointment file is uploaded
\* again with other check-in times and the script runs at the same
\* current_time, its table is the table of the run before, row for row and
\* field for field.
C26_SameTableButForCheckIn ==
    SecondUpload("check-in") => merged_df = prev_upload.merged_df

\* the tables of the two uploads differ only where the reducer had rows in no
\* order to choose from
SameTableButForCheckInUnlessTied ==
    (SecondUpload("check-in") /\ ~Tied) => merged_df = prev_upload.merged_df

\* the appointment frame with no check-in time in any row
WithoutCheckIn(av) ==
    [k \in 1..Len(av) |->
        [f \in DOMAIN av[k] |-> IF f = "CheckInDateTime" THEN NullStr ELSE av[k][f]]]

\* The check-in of the appointment feed is read nowhere: the table is the rows
\* that the join with the appointment frame stripped of its check-in times
\* yields and dropna retains, and the 'Check In DateTime' of every record is
\* that of an order row of its shipment.
CheckInFromOrderOnly ==
    Done =>
        LET joined == SelectSeq(
                MergeRows(ranked_ta,
                          JoinKeys(WithoutCheckIn(av_df), "ShipmentNbr", "av" \in text_ids),
                          JoinKeys(ov_df, "ShipmentNo", "ov" \in text_ids)),
                DropnaKeeps)
        IN  /\ Len(merged_df) = Len(joined)
            /\ \A k \in 1..Len(merged_df) :
                  /\ \A f \in QueryColumns : merged_df[k][f] = joined[k][f]
                  /\ \E o \in RangeOf(JoinKeys(ov_df, "ShipmentNo", "ov" \in text_ids)) :
                        /\ o.ShipmentNo = merged_df[k].SHIPMENT_ID
                        /\ o.CheckInDateTime = merged_df[k].CheckInDateTime

====
